---- MODULE Spec2Model ----
(***************************************************************************)
(* Model of sjtu::int2048 (src/code.cpp): a signed arbitrary-precision     *)
(* integer stored as little-endian base-10000 digit blocks plus a sign     *)
(* flag.  An int2048 object is the record [a |-> digits, neg |-> flag].    *)
(* Methods that take their right operand by reference are modelled on a    *)
(* heap h (location -> object) with `this` and `b` given as locations, so  *)
(* that passing the same object twice is a real case of the model.         *)
(***************************************************************************)
EXTENDS Integers, Sequences, FiniteSets, TLC

BASE == 10000
BASE_DIGS == 4

\* int2048(): empty digit vector, neg = false
Zero == [a |-> <<>>, neg |-> FALSE]

\* std::max on sizes
Max2(p, q) == IF p >= q THEN p ELSE q

RECURSIVE Zeros(_)
\* a vector of n zero blocks: a.assign(n, 0), a.insert(a.begin(), n, 0)
Zeros(n) == IF n <= 0 THEN <<>> ELSE Append(Zeros(n - 1), 0)

---------------------------------------------------------------------------
\* ===== helpers =====

RECURSIVE PopZeros(_)
\* the loop of trim(): while (!a.empty() && a.back() == 0) a.pop_back();
PopZeros(s) ==
  IF Len(s) > 0 /\ s[Len(s)] = 0 THEN PopZeros(SubSeq(s, 1, Len(s) - 1)) ELSE s

\* trim() without the pop_back loop (a faulty variant, as are the others marked so:
\* each is the code with one plausible slip, against which the claims are tried)
trim_nopop(x) == [a |-> x.a, neg |-> IF Len(x.a) = 0 THEN FALSE ELSE x.neg]

\* void int2048::trim()
trim(x) ==
  LET d == PopZeros(x.a)
  IN  [a |-> d, neg |-> IF Len(d) = 0 THEN FALSE ELSE x.neg]

\* bool int2048::is_zero() const
is_zero(x) == Len(x.a) = 0

RECURSIVE CmpFrom(_, _, _)
\* the loop of abs_compare over equal-sized vectors, from index i (1-based) down
CmpFrom(xa, ya, i) ==
  IF i < 1 THEN 0
  ELSE IF xa[i] # ya[i] THEN (IF xa[i] < ya[i] THEN -1 ELSE 1)
  ELSE CmpFrom(xa, ya, i - 1)

\* int int2048::abs_compare(const int2048 &b) const, x being *this
abs_compare(x, y) ==
  IF Len(x.a) # Len(y.a) THEN (IF Len(x.a) < Len(y.a) THEN -1 ELSE 1)
  ELSE CmpFrom(x.a, y.a, Len(x.a))

---------------------------------------------------------------------------
\* ===== constructors =====

\* An unsigned long long is four 16-bit limbs, least significant first, so
\* that the 64-bit width of the constructor's argument is kept.
LIMB == 65536

\* the unsigned long long with the value n (0 <= n < 2^31)
ULL(n) == <<n % LIMB, (n \div LIMB) % LIMB, 0, 0>>

RECURSIVE LimbDiv(_, _, _)
\* x / BASE and x % BASE on limbs, from limb i down: [q |-> limbs, r |-> remainder]
LimbDiv(x, i, rem) ==
  IF i < 1 THEN [q |-> x, r |-> rem]
  ELSE LET cur == rem * LIMB + x[i]
       IN  LimbDiv([x EXCEPT ![i] = cur \div BASE], i - 1, cur % BASE)

RECURSIVE LLDigits(_)
\* while (x) { a.push_back(x % BASE); x /= BASE; }
LLDigits(x) ==
  IF x = <<0, 0, 0, 0>> THEN <<>>
  ELSE LET d == LimbDiv(x, 4, 0) IN <<d.r>> \o LLDigits(d.q)

\* int2048::int2048(long long v), from `neg = v < 0` and the magnitude x
FromSignMag(ng, x) == trim([a |-> LLDigits(x), neg |-> ng])

\* int2048::int2048(long long v) for |v| < 2^31
FromLL(v) == FromSignMag(v < 0, ULL(IF v < 0 THEN -v ELSE v))

\* LLONG_MAX = 2^63 - 1
LLONG_MAX == [neg |-> FALSE, mags |-> {<<65535, 65535, 65535, 32767>>}]

\* LLONG_MIN = -2^63: `-v` overflows, which is undefined, so x may be any
\* 64-bit value; 2^63 (the wrapped value), 0 and 2^64 - 1 stand for them
LLONG_MIN ==
  [neg |-> TRUE,
   mags |-> {<<0, 0, 0, 32768>>, <<0, 0, 0, 0>>, <<65535, 65535, 65535, 65535>>}]

\* the long long v as its sign and the values x can take
LLArg(v) == [neg |-> v < 0, mags |-> {ULL(IF v < 0 THEN -v ELSE v)}]

\* characters are one-character strings; a std::string is a sequence of them
IsSpace(c) == c \in {" ", "\n", "\r", "\t"}
IsDigit(c) == c \in {"0", "1", "2", "3", "4", "5", "6", "7", "8", "9"}
DigitVal(c) ==
  CASE c = "0" -> 0 [] c = "1" -> 1 [] c = "2" -> 2 [] c = "3" -> 3 [] c = "4" -> 4
    [] c = "5" -> 5 [] c = "6" -> 6 [] c = "7" -> 7 [] c = "8" -> 8 [] c = "9" -> 9

RECURSIVE SkipSpaces(_, _)
\* while (i < n && isspace(s[i])) ++i;   (i is a 1-based index here)
SkipSpaces(s, i) ==
  IF i <= Len(s) /\ IsSpace(s[i]) THEN SkipSpaces(s, i + 1) ELSE i

RECURSIVE LastDigit(_, _, _)
\* while (end >= i && !isdigit(s[end])) --end;
LastDigit(s, i, end) ==
  IF end >= i /\ ~IsDigit(s[end]) THEN LastDigit(s, i, end - 1) ELSE end

RECURSIVE BlockVal(_, _, _, _)
\* for (t = l; t <= p; ++t) if (isdigit(s[t])) val = val * 10 + (s[t] - '0');
BlockVal(s, t, p, val) ==
  IF t > p THEN val
  ELSE BlockVal(s, t + 1, p, IF IsDigit(s[t]) THEN val * 10 + DigitVal(s[t]) ELSE val)

RECURSIVE ReadBlocks(_, _, _)
\* for (p = end; p >= i; p -= BASE_DIGS) { ...; a.push_back(val); }
ReadBlocks(s, i, p) ==
  IF p < i THEN <<>>
  ELSE LET l0 == p - (BASE_DIGS - 1)
           l  == IF l0 < i THEN i ELSE l0
       IN  <<BlockVal(s, l, p, 0)>> \o ReadBlocks(s, i, p - BASE_DIGS)

\* void int2048::read(const std::string &s)
read(s) ==
  LET n    == Len(s)
      i0   == SkipSpaces(s, 1)
      sign == i0 <= n /\ s[i0] \in {"+", "-"}
      ng   == sign /\ s[i0] = "-"
      i    == IF sign THEN i0 + 1 ELSE i0
      end  == LastDigit(s, i, n)
  IN  IF end < i THEN Zero
      ELSE LET t == trim([a |-> ReadBlocks(s, i, end), neg |-> ng])
           IN  IF is_zero(t) THEN [t EXCEPT !.neg = FALSE] ELSE t

---------------------------------------------------------------------------
\* ===== absolute add/sub =====

RECURSIVE AddLoop(_, _, _, _, _)
\* the carry loop of add_abs over i = 1..n; returns the digits, carry appended
AddLoop(xa, ya, i, n, carry) ==
  IF i > n THEN (IF carry # 0 THEN <<carry>> ELSE <<>>)
  ELSE LET cur == carry + (IF i <= Len(xa) THEN xa[i] ELSE 0)
                        + (IF i <= Len(ya) THEN ya[i] ELSE 0)
       IN  <<cur % BASE>> \o AddLoop(xa, ya, i + 1, n, cur \div BASE)

\* static int2048 add_abs(const int2048 &x, const int2048 &y)
add_abs(x, y) ==
  [a |-> AddLoop(x.a, y.a, 1, Max2(Len(x.a), Len(y.a)), 0), neg |-> FALSE]

RECURSIVE SubLoop(_, _, _, _)
\* the borrow loop of sub_abs over i = 1..x.a.size()
SubLoop(xa, ya, i, carry) ==
  IF i > Len(xa) THEN <<>>
  ELSE LET c0 == xa[i] - carry - (IF i <= Len(ya) THEN ya[i] ELSE 0)
       IN  IF c0 < 0 THEN <<c0 + BASE>> \o SubLoop(xa, ya, i + 1, 1)
                     ELSE <<c0>> \o SubLoop(xa, ya, i + 1, 0)

\* static int2048 sub_abs(const int2048 &x, const int2048 &y)
sub_abs(x, y) ==
  [trim([a |-> SubLoop(x.a, y.a, 1, 0), neg |-> FALSE]) EXCEPT !.neg = FALSE]

---------------------------------------------------------------------------
\* ===== heap plumbing =====

\* location of a by-value parameter or a local (a fresh object, never aliased)
Tmp == 0

\* the heap h extended with a fresh object holding the value v at Tmp
WithTmp(h, v) == [l \in (DOMAIN h) \cup {Tmp} |-> IF l = Tmp THEN v ELSE h[l]]

\* the heap h once the object at Tmp has gone out of scope
Drop(h) == [l \in (DOMAIN h) \ {Tmp} |-> h[l]]

---------------------------------------------------------------------------
\* ===== operators for Integer1 =====

\* add() that keeps the sign of *this in the sub_abs(b, *this) branch (faulty variant)
add_wrongsign(h, t, b) ==
  LET sx == h[t].neg
      sb == h[b].neg
  IN  IF sx = sb
      THEN LET r == add_abs(h[t], h[b])
           IN  [h EXCEPT ![t] = [r EXCEPT !.neg = sx /\ ~is_zero(r)]]
      ELSE LET cmp == abs_compare(h[t], h[b])
           IN  IF cmp = 0 THEN [h EXCEPT ![t] = Zero]
               ELSE IF cmp > 0
                    THEN [h EXCEPT ![t] = [sub_abs(h[t], h[b]) EXCEPT !.neg = sx]]
                    ELSE [h EXCEPT ![t] = [sub_abs(h[b], h[t]) EXCEPT !.neg = sx]]

\* int2048 &int2048::add(const int2048 &b), this = h[t], b = h[b]
add(h, t, b) ==
  LET sx == h[t].neg
      sb == h[b].neg
  IN  IF sx = sb
      THEN LET r == add_abs(h[t], h[b])
           IN  [h EXCEPT ![t] = [r EXCEPT !.neg = sx /\ ~is_zero(r)]]
      ELSE LET cmp == abs_compare(h[t], h[b])
           IN  IF cmp = 0 THEN [h EXCEPT ![t] = Zero]
               ELSE IF cmp > 0
                    THEN [h EXCEPT ![t] = [sub_abs(h[t], h[b]) EXCEPT !.neg = sx]]
                    ELSE [h EXCEPT ![t] = [sub_abs(h[b], h[t]) EXCEPT !.neg = sb]]

\* friend int2048 add(int2048 a, const int2048 &b): a is a copy
add_f(h, av, b) == add(WithTmp(h, av), Tmp, b)[Tmp]

\* int2048 &int2048::minus(const int2048 &b)
minus(h, t, b) ==
  LET sx == h[t].neg
      sb == h[b].neg
  IN  IF sx # sb
      THEN LET r == add_abs(h[t], h[b])
           IN  [h EXCEPT ![t] = [r EXCEPT !.neg = sx /\ ~is_zero(r)]]
      ELSE LET cmp == abs_compare(h[t], h[b])
           IN  IF cmp = 0 THEN [h EXCEPT ![t] = Zero]
               ELSE IF cmp > 0
                    THEN [h EXCEPT ![t] = [sub_abs(h[t], h[b]) EXCEPT !.neg = sx]]
                    ELSE [h EXCEPT ![t] = [sub_abs(h[b], h[t]) EXCEPT !.neg = ~sb]]

\* friend int2048 minus(int2048 a, const int2048 &b)
minus_f(h, av, b) == minus(WithTmp(h, av), Tmp, b)[Tmp]

---------------------------------------------------------------------------
\* ===== multiplication =====

RECURSIVE MulInner(_, _, _, _, _, _)
\* for (j = 0; j < y.a.size() || carry; ++j) { ... }   (i, j are 1-based here)
MulInner(ra, xi, ya, i, j, carry) ==
  IF j <= Len(ya) \/ carry # 0
  THEN LET cur == ra[i + j - 1] + carry + xi * (IF j <= Len(ya) THEN ya[j] ELSE 0)
       IN  MulInner([ra EXCEPT ![i + j - 1] = cur % BASE], xi, ya, i, j + 1, cur \div BASE)
  ELSE ra

RECURSIVE MulOuter(_, _, _, _)
\* for (i = 0; i < x.a.size(); ++i) { long long carry = 0; ... }
MulOuter(ra, xa, ya, i) ==
  IF i > Len(xa) THEN ra
  ELSE MulOuter(MulInner(ra, xa[i], ya, i, 1, 0), xa, ya, i + 1)

\* mul_simple that loses the carry out of each row (faulty variant)
mul_simple_rowcarry(x, y) ==
  IF is_zero(x) \/ is_zero(y) THEN Zero
  ELSE LET RECURSIVE Row(_, _, _, _)
           Row(ra, i, j, carry) ==
             IF j > Len(y.a) THEN ra
             ELSE LET cur == ra[i + j - 1] + carry + x.a[i] * y.a[j]
                  IN  Row([ra EXCEPT ![i + j - 1] = cur % BASE], i, j + 1, cur \div BASE)
           RECURSIVE Rows(_, _)
           Rows(ra, i) == IF i > Len(x.a) THEN ra ELSE Rows(Row(ra, i, 1, 0), i + 1)
           r0 == Zeros(Len(x.a) + Len(y.a))
       IN  [trim([a |-> Rows(r0, 1), neg |-> FALSE]) EXCEPT !.neg = FALSE]

\* static int2048 mul_simple(const int2048 &x, const int2048 &y)
mul_simple(x, y) ==
  IF is_zero(x) \/ is_zero(y) THEN Zero
  ELSE LET r0 == Zeros(Len(x.a) + Len(y.a))
       IN  [trim([a |-> MulOuter(r0, x.a, y.a, 1), neg |-> FALSE]) EXCEPT !.neg = FALSE]

\* static int2048 mul_fft(const int2048 &x, const int2048 &y)
mul_fft(x, y) == mul_simple(x, y)

RECURSIVE MulIntLoop(_, _, _, _)
\* the carry loop of mul_by_int; the final carry is appended
MulIntLoop(xa, m, i, carry) ==
  IF i > Len(xa) THEN (IF carry # 0 THEN <<carry>> ELSE <<>>)
  ELSE LET cur == xa[i] * m + carry
       IN  <<cur % BASE>> \o MulIntLoop(xa, m, i + 1, cur \div BASE)

\* static int2048 mul_by_int(const int2048 &x, int m)
mul_by_int(x, m) ==
  IF is_zero(x) \/ m = 0 THEN Zero
  ELSE [a |-> MulIntLoop(x.a, m, 1, 0), neg |-> FALSE]

---------------------------------------------------------------------------
\* ===== division (absolute) =====

RECURSIVE BinSearch_strict(_, _, _, _, _)
\* the digit search with `cmp < 0` for `cmp <= 0` (faulty variant)
BinSearch_strict(vshift, rem, low, high, best) ==
  IF low > high THEN best
  ELSE LET mid == (low + high) \div 2
           t   == mul_by_int(vshift, mid)
           cmp == abs_compare(t, rem)
       IN  IF cmp < 0 THEN BinSearch_strict(vshift, rem, mid + 1, high, mid)
                      ELSE BinSearch_strict(vshift, rem, low, mid - 1, best)

RECURSIVE BinSearch(_, _, _, _, _)
\* while (low <= high) { mid = (low + high) >> 1; ... }: the digit search
BinSearch(vshift, rem, low, high, best) ==
  IF low > high THEN best
  ELSE LET mid == (low + high) \div 2
           t   == mul_by_int(vshift, mid)
           cmp == abs_compare(t, rem)
       IN  IF cmp <= 0 THEN BinSearch(vshift, rem, mid + 1, high, mid)
                       ELSE BinSearch(vshift, rem, low, mid - 1, best)

\* vshift.a.erase(vshift.a.begin()) when non-empty, then vshift.trim()
ShiftDown(vshift) ==
  trim(IF Len(vshift.a) > 0 THEN [vshift EXCEPT !.a = Tail(vshift.a)] ELSE vshift)

RECURSIVE DivLoop(_, _, _, _, _)
\* for (pos = k; pos >= 0; --pos): one quotient digit per position.  Returns the
\* quotient digits, the remainder, and the sequence of positions visited, each
\* with the shifted divisor and the running remainder the digit was chosen for.
DivLoop(vshift, rem, qa, pos, steps) ==
  IF pos < 0 THEN [qa |-> qa, rem |-> rem, steps |-> steps]
  ELSE LET best == BinSearch(vshift, rem, 0, BASE - 1, 0)
           rem2 == IF best # 0 THEN sub_abs(rem, mul_by_int(vshift, best)) ELSE rem
           st   == [pos |-> pos, vshift |-> vshift, rem |-> rem, best |-> best]
       IN  DivLoop(ShiftDown(vshift), rem2, [qa EXCEPT ![pos + 1] = best],
                   pos - 1, Append(steps, st))

\* divmod_abs without the `if (v.is_zero()) return;` guard (faulty variant)
divmod_abs_noguard(u, v) ==
  IF abs_compare(u, v) < 0 THEN [q |-> FromLL(0), r |-> u, steps |-> <<>>]
  ELSE LET k   == Len(u.a) - Len(v.a)
           vs  == IF k > 0 THEN [v EXCEPT !.a = Zeros(k) \o v.a] ELSE v
           res == DivLoop(vs, u, Zeros(k + 1), k, <<>>)
       IN  [q     |-> trim([a |-> res.qa, neg |-> FALSE]),
            r     |-> [res.rem EXCEPT !.neg = FALSE],
            steps |-> res.steps]

\* static void divmod_abs(u, v, q, r); the out-parameters q and r are returned
\* in a record, together with the positions visited by the main loop
divmod_abs(u, v) ==
  IF is_zero(v) THEN [q |-> FromLL(0), r |-> FromLL(0), steps |-> <<>>]
  ELSE IF abs_compare(u, v) < 0 THEN [q |-> FromLL(0), r |-> u, steps |-> <<>>]
  ELSE LET k   == Len(u.a) - Len(v.a)
           vs  == IF k > 0 THEN [v EXCEPT !.a = Zeros(k) \o v.a] ELSE v
           res == DivLoop(vs, u, Zeros(k + 1), k, <<>>)
       IN  [q     |-> trim([a |-> res.qa, neg |-> FALSE]),
            r     |-> [res.rem EXCEPT !.neg = FALSE],
            steps |-> res.steps]

---------------------------------------------------------------------------
\* ===== operators (Integer2) =====

\* int2048 int2048::operator+() const
op_plus(x) == x

\* int2048 int2048::operator-() const
op_neg(x) == IF ~is_zero(x) THEN [x EXCEPT !.neg = ~x.neg] ELSE x

\* int2048 &int2048::operator=(const int2048 &o)
op_assign(h, t, o) == [h EXCEPT ![t] = [a |-> h[o].a, neg |-> h[o].neg]]

\* int2048 &int2048::operator+=(const int2048 &b)
op_add_eq(h, t, b) == add(h, t, b)

\* friend int2048 operator+(int2048 a, const int2048 &b)
op_add(h, av, b) == add_f(h, av, b)

\* int2048 &int2048::operator-=(const int2048 &b)
op_sub_eq(h, t, b) == minus(h, t, b)

\* friend int2048 operator-(int2048 a, const int2048 &b)
op_sub(h, av, b) == minus_f(h, av, b)

\* operator*= that resets the result storage before reading b (faulty variant)
op_mul_eq_inplace(h, t, b) ==
  LET sign == h[t].neg # h[b].neg
      x    == [h[t] EXCEPT !.neg = FALSE]
      h1   == [h EXCEPT ![t] = Zero]
      y    == [h1[b] EXCEPT !.neg = FALSE]
      r    == mul_fft(x, y)
  IN  [h1 EXCEPT ![t] = [r EXCEPT !.neg = sign /\ ~is_zero(r)]]

\* int2048 &int2048::operator*=(const int2048 &b)
op_mul_eq(h, t, b) ==
  LET sign == h[t].neg # h[b].neg
      x    == [h[t] EXCEPT !.neg = FALSE]
      y    == [h[b] EXCEPT !.neg = FALSE]
      r    == mul_fft(x, y)
  IN  [h EXCEPT ![t] = [r EXCEPT !.neg = sign /\ ~is_zero(r)]]

\* friend int2048 operator*(int2048 a, const int2048 &b)
op_mul(h, av, b) == op_mul_eq(WithTmp(h, av), Tmp, b)[Tmp]

\* operator/= that truncates toward zero (faulty variant)
op_div_eq_trunc(h, t, b) ==
  LET neg_res == h[t].neg # h[b].neg
      d       == divmod_abs([h[t] EXCEPT !.neg = FALSE], [h[b] EXCEPT !.neg = FALSE])
  IN  [h EXCEPT ![t] = [d.q EXCEPT !.neg = neg_res /\ ~is_zero(d.q)]]

\* int2048 &int2048::operator/=(const int2048 &b)
op_div_eq(h, t, b) ==
  LET neg_res == h[t].neg # h[b].neg
      A       == [h[t] EXCEPT !.neg = FALSE]
      B       == [h[b] EXCEPT !.neg = FALSE]
      d       == divmod_abs(A, B)
      qa      == IF neg_res /\ ~is_zero(d.r)
                 THEN [add_abs(d.q, FromLL(1)) EXCEPT !.neg = TRUE]
                 ELSE [d.q EXCEPT !.neg = neg_res /\ ~is_zero(d.q)]
  IN  [h EXCEPT ![t] = qa]

\* friend int2048 operator/(int2048 a, const int2048 &b)
op_div(h, av, b) == op_div_eq(WithTmp(h, av), Tmp, b)[Tmp]

\* int2048 &int2048::operator%=(const int2048 &b).  `*this = add_abs(..)` and
\* `*this = sub_abs(..)` store a result whose neg is false, and the following
\* `this->neg = this->neg` leaves it so.
op_mod_eq(h, t, b) ==
  LET q    == op_div(h, h[t], b)
      prod == op_mul(h, q, b)
  IN  IF h[t].neg # prod.neg
      THEN [h EXCEPT ![t] = add_abs(h[t], prod)]
      ELSE LET cmp == abs_compare(h[t], prod)
           IN  IF cmp = 0 THEN [h EXCEPT ![t] = Zero]
               ELSE IF cmp > 0 THEN [h EXCEPT ![t] = sub_abs(h[t], prod)]
               ELSE [h EXCEPT ![t] = [sub_abs(prod, h[t]) EXCEPT !.neg = ~prod.neg]]

\* friend int2048 operator%(int2048 a, const int2048 &b)
op_mod(h, av, b) == op_mod_eq(WithTmp(h, av), Tmp, b)[Tmp]

\* friend bool operator==(const int2048 &x, const int2048 &y)
op_eq(x, y) == x.neg = y.neg /\ x.a = y.a

\* friend bool operator!=
op_ne(x, y) == ~op_eq(x, y)

\* operator< that does not flip the direction for two negatives (faulty variant)
op_lt_noflip(x, y) ==
  IF x.neg # y.neg THEN x.neg /\ ~is_zero(x) ELSE abs_compare(x, y) < 0

\* friend bool operator<(const int2048 &x, const int2048 &y)
op_lt(x, y) ==
  IF x.neg # y.neg THEN x.neg /\ ~is_zero(x)
  ELSE LET cmp == abs_compare(x, y)
       IN  IF x.neg THEN cmp > 0 ELSE cmp < 0

\* friend bool operator>
op_gt(x, y) == op_lt(y, x)

\* friend bool operator<=
op_le(x, y) == ~op_lt(y, x)

\* friend bool operator>=
op_ge(x, y) == ~op_lt(x, y)

---------------------------------------------------------------------------
\* ===== the program state and its operations =====

\* the most arithmetic operations applied in one run
MaxOps == 1
\* the most digit blocks an operand of an arithmetic operation may have
MaxLen == 3

\* the int2048 objects of the program
Locs == {1, 2}

\* arguments given to int2048(long long), besides LLONG_MAX and LLONG_MIN
LLVals == {0, 1, -1, 3, -3, -5, 6, -6, 9999, -10000, 20000, 100000000, 100020003, -99999999}

\* arguments given to read() / int2048(const std::string &)
Strs == { <<"0">>, <<"-", "0">>, <<>>, <<"-">>, <<"+", "a">>,
          <<" ", "+", "0", "0", "7", " ">>,
          <<"-", "3">>, <<"5">>,
          <<"1", "0", "0", "0", "0">>,
          <<"-", "1", "0", "0", "0", "1">>,
          <<"\t", "-", "0", "0", "0", "0", "0">>,
          <<"9", "9", "9", "9", "9", "9", "9", "9">>,
          <<"2", "x", "4", "\n">> }

VARIABLES
  obj,    \* obj[l]: the int2048 object at location l
  last,   \* the last operation: its name, operands and their values before it
  nops    \* number of arithmetic operations applied so far

vars == <<obj, last, nops>>

NoRet == [lt |-> FALSE, eq |-> FALSE, gt |-> FALSE, le |-> FALSE, ge |-> FALSE, ne |-> FALSE]

\* the record of an arithmetic operation obj[t] op= obj[b]
Arith(op, t, b) ==
  [op |-> op, t |-> t, b |-> b, lhs |-> obj[t], rhs |-> obj[b], str |-> <<>>, ret |-> NoRet]

\* the record of any other operation: str is the text read, ret the comparisons' results
Other(op, t, b, str, ret) ==
  [op |-> op, t |-> t, b |-> b, lhs |-> Zero, rhs |-> Zero, str |-> str, ret |-> ret]

\* int2048 x, y;
Init ==
  /\ obj = [l \in Locs |-> Zero]
  /\ last = [op |-> "init", t |-> 1, b |-> 1, lhs |-> Zero, rhs |-> Zero,
             str |-> <<>>, ret |-> NoRet]
  /\ nops = 0

\* obj[t] = int2048(v)
Construct(t, v) ==
  /\ nops = 0
  /\ \E x \in v.mags : obj' = [obj EXCEPT ![t] = FromSignMag(v.neg, x)]
  /\ last' = Other("ctor", t, t, <<>>, NoRet)
  /\ UNCHANGED nops

\* obj[t].read(s)
Read(t, s) ==
  /\ nops = 0
  /\ obj' = [obj EXCEPT ![t] = read(s)]
  /\ last' = Other("read", t, t, s, NoRet)
  /\ UNCHANGED nops

\* obj[t] = obj[b]
Assign(t, b) ==
  /\ obj' = op_assign(obj, t, b)
  /\ last' = Other("assign", t, b, <<>>, NoRet)
  /\ UNCHANGED nops

Operands(t, b) ==
  /\ nops < MaxOps
  /\ Len(obj[t].a) <= MaxLen
  /\ Len(obj[b].a) <= MaxLen

\* obj[t] = -obj[b]
Negate(t, b) ==
  /\ Operands(t, b)
  /\ obj' = Drop(op_assign(WithTmp(obj, op_neg(obj[b])), t, Tmp))
  /\ last' = Arith("neg", t, b)
  /\ nops' = nops + 1

\* obj[t].add(obj[b])
Add(t, b) ==
  /\ Operands(t, b)
  /\ obj' = add(obj, t, b)
  /\ last' = Arith("add", t, b)
  /\ nops' = nops + 1

\* obj[t].minus(obj[b])
Minus(t, b) ==
  /\ Operands(t, b)
  /\ obj' = minus(obj, t, b)
  /\ last' = Arith("minus", t, b)
  /\ nops' = nops + 1

\* obj[t] += obj[b]
PlusEq(t, b) ==
  /\ Operands(t, b)
  /\ obj' = op_add_eq(obj, t, b)
  /\ last' = Arith("+=", t, b)
  /\ nops' = nops + 1

\* obj[t] -= obj[b]
MinusEq(t, b) ==
  /\ Operands(t, b)
  /\ obj' = op_sub_eq(obj, t, b)
  /\ last' = Arith("-=", t, b)
  /\ nops' = nops + 1

\* obj[t] *= obj[b]
MulEq(t, b) ==
  /\ Operands(t, b)
  /\ obj' = op_mul_eq(obj, t, b)
  /\ last' = Arith("*=", t, b)
  /\ nops' = nops + 1

\* obj[t] /= obj[b]
DivEq(t, b) ==
  /\ Operands(t, b)
  /\ obj' = op_div_eq(obj, t, b)
  /\ last' = Arith("/=", t, b)
  /\ nops' = nops + 1

\* obj[t] %= obj[b]
ModEq(t, b) ==
  /\ Operands(t, b)
  /\ obj' = op_mod_eq(obj, t, b)
  /\ last' = Arith("%=", t, b)
  /\ nops' = nops + 1

\* the six relational operators applied to obj[t], obj[b]
Compare(t, b) ==
  /\ last' = Other("cmp", t, b, <<>>,
                 [lt |-> op_lt(obj[t], obj[b]), eq |-> op_eq(obj[t], obj[b]),
                  gt |-> op_gt(obj[t], obj[b]), le |-> op_le(obj[t], obj[b]),
                  ge |-> op_ge(obj[t], obj[b]), ne |-> op_ne(obj[t], obj[b])])
  /\ UNCHANGED <<obj, nops>>

\* arithmetic accumulates into obj[1]; its right operand is either object, so
\* obj[1] op= obj[1] is the self-aliased call
Next ==
  \/ \E t \in Locs, v \in {LLArg(n) : n \in LLVals} \cup {LLONG_MAX, LLONG_MIN} :
       Construct(t, v)
  \/ \E t \in Locs, s \in Strs : Read(t, s)
  \/ \E t \in Locs, b \in Locs : Assign(t, b)
  \/ \E b \in Locs : Negate(1, b)
  \/ \E b \in Locs : Add(1, b)
  \/ \E b \in Locs : Minus(1, b)
  \/ \E b \in Locs : PlusEq(1, b)
  \/ \E b \in Locs : MinusEq(1, b)
  \/ \E b \in Locs : MulEq(1, b)
  \/ \E b \in Locs : DivEq(1, b)
  \/ \E b \in Locs : ModEq(1, b)
  \/ \E t \in Locs, b \in Locs : Compare(t, b)

Spec == Init /\ [][Next]_vars

---------------------------------------------------------------------------
\* ===== the integers that the objects stand for =====
\* TLC's integers are too narrow for the values, so a value is identified by its
\* residues modulo pairwise coprime moduli, each greater than BASE.  A vector of
\* fewer than NP digit blocks, each in [0, BASE), stands for an integer of
\* magnitude below BASE^(NP-1), and two integers of magnitude at most
\* 2 * BASE^(NP-1) are equal iff they agree modulo every modulus, the product of
\* the moduli exceeding BASE^NP.
Moduli == <<10007, 10009, 10037, 10039, 10061, 10067, 10069, 10079, 10091, 10093>>
NP == Len(Moduli)

RECURSIVE MagMod(_, _, _)
\* the magnitude d[i] + BASE * d[i+1] + ... modulo p
MagMod(d, i, p) == IF i > Len(d) THEN 0 ELSE (d[i] + BASE * MagMod(d, i + 1, p)) % p

\* the signed value of x modulo p
IntMod(x, p) == LET m == MagMod(x.a, 1, p) IN IF x.neg THEN (p - m) % p ELSE m

Res(x) == [i \in 1..NP |-> IntMod(x, Moduli[i])]
RAdd(r, s) == [i \in 1..NP |-> (r[i] + s[i]) % Moduli[i]]
RSub(r, s) == [i \in 1..NP |-> (r[i] + Moduli[i] - s[i]) % Moduli[i]]
RMul(r, s) == [i \in 1..NP |-> (r[i] * s[i]) % Moduli[i]]
RNat(n)    == [i \in 1..NP |-> n % Moduli[i]]

\* every digit block is in [0, BASE)
InRange(x) == \A i \in 1..Len(x.a) : x.a[i] \in 0..(BASE - 1)

\* x is a well-formed vector, short enough to be identified by its residues,
\* and stands for the integer whose residues are r
Denotes(x, r) == InRange(x) /\ Len(x.a) < NP /\ Res(x) = r

\* Invariants 1 and 2 of the data model
Canonical(x) ==
  /\ InRange(x)
  /\ Len(x.a) > 0 => x.a[Len(x.a)] # 0
  /\ Len(x.a) = 0 => x.neg = FALSE

\* index of the most significant nonzero block of d, 0 when there is none
Top(d) ==
  IF \A i \in 1..Len(d) : d[i] = 0 THEN 0
  ELSE CHOOSE i \in 1..Len(d) : d[i] # 0 /\ \A j \in (i + 1)..Len(d) : d[j] = 0

\* the magnitude of x is less than the magnitude of y (positional notation)
MagLess(x, y) ==
  \/ Top(x.a) < Top(y.a)
  \/ /\ Top(x.a) = Top(y.a)
     /\ \E i \in 1..Top(x.a) :
          /\ x.a[i] < y.a[i]
          /\ \A j \in (i + 1)..Top(x.a) : x.a[j] = y.a[j]

MagLeq(x, y) == ~MagLess(y, x)

\* the integer x is less than the integer y
IntLess(x, y) ==
  LET xn == x.neg /\ Top(x.a) > 0
      yn == y.neg /\ Top(y.a) > 0
  IN  IF xn # yn THEN xn
      ELSE IF xn THEN MagLess(y, x) ELSE MagLess(x, y)

\* the magnitude of x as an object
Abs(x) == [a |-> x.a, neg |-> FALSE]

\* a heap holding the single object y at location 1: the right operand of the
\* value-returning operators
Cell(y) == [l \in {1} |-> y]

\* magnitudes: A = Q * B + R and 0 <= R < B
IsQuotRem(Q, R, A, B) ==
  /\ InRange(Q) /\ InRange(R) /\ InRange(A) /\ InRange(B)
  /\ Len(Q.a) + Len(B.a) < NP - 1 /\ Len(A.a) < NP - 1 /\ Len(R.a) < NP - 1
  /\ RAdd(RMul(Res(Abs(Q)), Res(Abs(B))), Res(Abs(R))) = Res(Abs(A))
  /\ MagLess(R, B)

---------------------------------------------------------------------------
\* ===== claims =====

\* C1: division identity.  After obj[1] %= obj[b] with a nonzero divisor, for
\* a and b the operands and r the result, (a / b) * b + r == a, with /, * and +
\* the value-returning operators and == operator==.
C1_DivisionIdentity ==
  (last.op = "%=" /\ ~is_zero(last.rhs)) =>
    LET a == last.lhs
        b == last.rhs
        q == op_div(Cell(b), a, 1)
        p == op_mul(Cell(b), q, 1)
    IN  op_eq(op_add(Cell(obj[1]), p, 1), a)

\* C2: floor-modulo sign.  After obj[1] %= obj[b] with a nonzero divisor the
\* result is zero or has the sign of the divisor.
C2_FloorModSign ==
  (last.op = "%=" /\ ~is_zero(last.rhs)) =>
    (is_zero(obj[1]) \/ obj[1].neg = last.rhs.neg)

\* C3: floor division.  After obj[1] /= obj[b] with a nonzero divisor, with Q
\* and R the quotient and remainder of the magnitudes (|a| = Q * |b| + R,
\* 0 <= R < |b|): when the signs differ and R is nonzero the result is
\* -(Q + 1); otherwise its magnitude is Q and it is negative iff the signs
\* differ and Q is nonzero.
C3_FloorDivision ==
  (last.op = "/=" /\ ~is_zero(last.rhs)) =>
    LET a    == last.lhs
        b    == last.rhs
        d    == divmod_abs(Abs(a), Abs(b))
        res  == obj[1]
        diff == a.neg # b.neg
    IN  /\ IsQuotRem(d.q, d.r, a, b)
        /\ Canonical(res)
        /\ IF diff /\ Top(d.r.a) > 0
           THEN res.neg /\ Denotes(Abs(res), RAdd(Res(d.q), RNat(1)))
           ELSE Res(Abs(res)) = Res(d.q) /\ Len(res.a) = Top(d.q.a)
                /\ (res.neg <=> (diff /\ Top(d.q.a) > 0))

\* a floor division that had to round away from zero: -5 / 3 == -2
C3_Witness ==
  /\ last.op = "/=" /\ last.lhs = FromLL(-5) /\ last.rhs = FromLL(3)
  /\ obj[1] = [a |-> <<2>>, neg |-> TRUE]

\* C4: canonical form.  In every reachable state every object has all digit
\* blocks in [0, BASE), a nonzero most significant block when it has any, and
\* a false sign flag when it has none.
C4_CanonicalForm == \A l \in Locs : Canonical(obj[l])

\* read("-0") has produced zero with a cleared sign flag
C4_Witness ==
  /\ last.op = "read" /\ last.str = <<"-", "0">>
  /\ obj[last.t] = [a |-> <<>>, neg |-> FALSE]

\* C5 as stated: with a zero divisor both /= and %= leave the value zero.
C5_ZeroDivisorYieldsZero ==
  (last.op \in {"/=", "%="} /\ is_zero(last.rhs)) => obj[1] = Zero

\* C5 as amended: with a zero divisor /= leaves the value zero (sign flag
\* false), and %= leaves a value with the digit blocks of the dividend.
C5_ZeroDivisor ==
  /\ (last.op = "/=" /\ is_zero(last.rhs)) => obj[1] = Zero
  /\ (last.op = "%=" /\ is_zero(last.rhs)) => obj[1].a = last.lhs.a

\* a nonzero value taken modulo zero
C5_Witness ==
  /\ last.op = "%=" /\ is_zero(last.rhs) /\ last.lhs = FromLL(-5)
  /\ obj[1].a = <<5>>

\* C6: signed addition and subtraction are exact.  After add / += the result
\* stands for the sum of the operands, equals b + a, and is zero when b is -a;
\* after minus / -= it stands for the difference and is zero when b equals a.
C6_AddSubExact ==
  LET a == last.lhs
      b == last.rhs
  IN  /\ (last.op \in {"add", "+="}) =>
           /\ Len(a.a) < NP - 1 /\ Len(b.a) < NP - 1
           /\ Denotes(obj[1], RAdd(Res(a), Res(b)))
           /\ op_eq(obj[1], op_add(Cell(a), b, 1))
           /\ (b = op_neg(a)) => obj[1] = Zero
      /\ (last.op \in {"minus", "-="}) =>
           /\ Len(a.a) < NP - 1 /\ Len(b.a) < NP - 1
           /\ Denotes(obj[1], RSub(Res(a), Res(b)))
           /\ (b = a) => obj[1] = Zero

\* an addition of opposite signs that borrows across a block: 1 + (-10000)
C6_Witness ==
  /\ last.op = "add" /\ last.lhs = FromLL(1) /\ last.rhs = FromLL(-10000)
  /\ obj[1] = [a |-> <<9999>>, neg |-> TRUE]

\* C7: multiplication is exact and sign-correct.  After *= the result stands
\* for the product of the operands, is zero when either operand is zero, has
\* at most len(a) + len(b) blocks, is negative iff the signs differ and the
\* product is nonzero, and equals b * a.
C7_MulExact ==
  (last.op = "*=") =>
    LET a == last.lhs
        b == last.rhs
    IN  /\ Len(a.a) + Len(b.a) < NP - 1
        /\ Denotes(obj[1], RMul(Res(a), Res(b)))
        /\ (is_zero(a) \/ is_zero(b)) => obj[1] = Zero
        /\ Len(obj[1].a) <= Len(a.a) + Len(b.a)
        /\ obj[1].neg <=> (a.neg # b.neg /\ Top(obj[1].a) > 0)
        /\ op_eq(obj[1], op_mul(Cell(a), b, 1))

\* a product of two two-block operands of opposite signs, with carries
C7_Witness ==
  /\ last.op = "*=" /\ last.lhs = FromLL(-99999999)
  /\ last.rhs = [a |-> <<9999, 9999>>, neg |-> FALSE]
  /\ obj[1] = [a |-> <<1, 0, 9998, 9999>>, neg |-> TRUE]

\* C8: ordering consistency.  After the relational operators are applied to
\* two objects, exactly one of <, ==, > holds and each agrees with the order
\* of the integers the objects stand for; <= and >= are the negations of > and <.
C8_OrderingConsistent ==
  (last.op = "cmp") =>
    LET x == obj[last.t]
        y == obj[last.b]
        r == last.ret
    IN  /\ Len(x.a) < NP /\ Len(y.a) < NP
        /\ Cardinality({k \in {"lt", "eq", "gt"} : r[k]}) = 1
        /\ r.lt <=> IntLess(x, y)
        /\ r.gt <=> IntLess(y, x)
        /\ r.eq <=> (Res(x) = Res(y))
        /\ r.le <=> ~r.gt
        /\ r.ge <=> ~r.lt

\* two negative values of equal length compared: -5 < -3
C8_Witness ==
  /\ last.op = "cmp" /\ obj[last.t] = FromLL(-5) /\ obj[last.b] = FromLL(-3)
  /\ last.ret.lt /\ ~last.ret.gt /\ ~last.ret.eq

\* the compound operation named op applied to the heap h
ApplyOp(op, h, t, b) ==
  CASE op = "add"   -> add(h, t, b)
    [] op = "minus" -> minus(h, t, b)
    [] op = "+="    -> op_add_eq(h, t, b)
    [] op = "-="    -> op_sub_eq(h, t, b)
    [] op = "*="    -> op_mul_eq(h, t, b)
    [] op = "/="    -> op_div_eq(h, t, b)
    [] op = "%="    -> op_mod_eq(h, t, b)

\* C9: self-aliasing is safe.  After a compound operation whose right operand
\* was the object itself, the object holds what the operation leaves when the
\* right operand is a separate object holding a copy of the original value.
C9_SelfAliasSafe ==
  (last.op \in {"add", "minus", "+=", "-=", "*=", "/=", "%="} /\ last.b = last.t) =>
    LET h == [l \in {1, 2} |-> last.lhs]
    IN  obj[1] = ApplyOp(last.op, h, 1, 2)[1]

\* a nonzero value squared in place
C9_Witness ==
  /\ last.op = "*=" /\ last.b = last.t /\ last.lhs = FromLL(-99999999)
  /\ obj[1] = [a |-> <<1, 0, 9998, 9999>>, neg |-> FALSE]

\* C10: magnitude long division.  For the divmod_abs call made by /= or %=
\* with a nonzero divisor: u = q * v + r with 0 <= r < v; q = 0 and r = u when
\* u < v; otherwise one position is visited per shift, and at each the digit d
\* recorded is in [0, BASE), d * vshift <= rem (which is also what the sub_abs
\* call needs) and, unless d = BASE - 1, (d + 1) * vshift > rem.
C10_LongDivision ==
  (last.op \in {"/=", "%="} /\ ~is_zero(last.rhs)) =>
    LET u == Abs(last.lhs)
        v == Abs(last.rhs)
        d == divmod_abs(u, v)
    IN  /\ IsQuotRem(d.q, d.r, u, v)
        /\ Canonical(d.q) /\ Canonical(d.r)
        /\ IF MagLess(u, v)
           THEN d.q = Zero /\ d.r = u /\ d.steps = <<>>
           ELSE Len(d.steps) = Len(u.a) - Len(v.a) + 1
        /\ \A k \in 1..Len(d.steps) :
             LET st == d.steps[k]
                 t  == mul_by_int(st.vshift, st.best)
                 t1 == mul_by_int(st.vshift, st.best + 1)
             IN  /\ st.pos = Len(d.steps) - k
                 /\ st.best \in 0..(BASE - 1)
                 /\ Denotes(t, RMul(Res(st.vshift), RNat(st.best)))
                 /\ MagLeq(t, st.rem)
                 /\ (st.best < BASE - 1) =>
                      /\ Denotes(t1, RMul(Res(st.vshift), RNat(st.best + 1)))
                      /\ MagLess(st.rem, t1)

\* a division that visits two shift positions: 100020003 / -10000
C10_Witness ==
  /\ last.op = "/=" /\ last.lhs = FromLL(100020003) /\ last.rhs = FromLL(-10000)
  /\ Len(divmod_abs(Abs(last.lhs), Abs(last.rhs)).steps) = 2
  /\ obj[1] = [a |-> <<3, 1>>, neg |-> TRUE]

====
